---- MODULE Spec2Model ----
(***************************************************************************)
(* A model of papers_fetcher.py: the search -> per-identifier detail fetch *)
(* loop, the affiliation classifier, the record assembler and the exporter.*)
(*                                                                         *)
(* Python strings are modelled as sequences of one-character strings, so   *)
(* that strip(), lower(), the substring test and join() are computed       *)
(* character by character, as the interpreter computes them.               *)
(***************************************************************************)
EXTENDS Integers, Sequences, FiniteSets, TLC

\* ------------------------------------------------------------------ bounds
\* Longest identifier list a search response carries in the model.
MaxIds == 3
\* Most <Author> entries of a document handed to extract_authors_affiliations.
MaxAuthors == 2
\* Longest run of surrounding characters put before and after a keyword
\* variant in the affiliation strings handed to is_company.
MaxPad == 1

\* ------------------------------------------------------- Python str methods
UpperLetters ==
  <<"A","B","C","D","E","F","G","H","I","J","K","L","M",
    "N","O","P","Q","R","S","T","U","V","W","X","Y","Z">>
LowerLetters ==
  <<"a","b","c","d","e","f","g","h","i","j","k","l","m",
    "n","o","p","q","r","s","t","u","v","w","x","y","z">>

\* str.lower() on one character: an upper-case letter maps to its lower-case
\* letter, every other character is unchanged.
LowerChar(c) ==
  IF \E i \in 1..Len(UpperLetters) : UpperLetters[i] = c
  THEN LowerLetters[CHOOSE i \in 1..Len(UpperLetters) : UpperLetters[i] = c]
  ELSE c

\* str.lower()
lower(s) == [i \in 1..Len(s) |-> LowerChar(s[i])]

\* The characters str.strip() removes.
IsSpace(c) == c \in {" ", "\t", "\n"}

\* str.strip(): drop the leading and the trailing run of whitespace.
strip(s) ==
  IF \A i \in 1..Len(s) : IsSpace(s[i])
  THEN << >>
  ELSE LET first == CHOOSE i \in 1..Len(s) :
                      /\ ~IsSpace(s[i])
                      /\ \A j \in 1..(i-1) : IsSpace(s[j])
           last  == CHOOSE i \in 1..Len(s) :
                      /\ ~IsSpace(s[i])
                      /\ \A j \in (i+1)..Len(s) : IsSpace(s[j])
       IN  SubSeq(s, first, last)

\* Python's `sub in s` on strings.
StrIn(sub, s) ==
  \E i \in 1..(Len(s) - Len(sub) + 1) : SubSeq(s, i, i + Len(sub) - 1) = sub

\* sep.join(parts)
RECURSIVE join(_, _)
join(sep, parts) ==
  IF Len(parts) = 0 THEN << >>
  ELSE IF Len(parts) = 1 THEN parts[1]
  ELSE parts[1] \o sep \o join(sep, Tail(parts))

\* Python truthiness of a str or a list: non-empty.
Truthy(s) == Len(s) > 0

\* ------------------------------------------------------- string literals
NA == <<"N","/","A">>
CommaSpace == <<",", " ">>
Space == <<" ">>
Empty == << >>

\* academic_keywords of is_company
academic_keywords ==
  << <<"U","n","i","v","e","r","s","i","t","y">>,
     <<"I","n","s","t","i","t","u","t","e">>,
     <<"C","o","l","l","e","g","e">>,
     <<"S","c","h","o","o","l">>,
     <<"H","o","s","p","i","t","a","l">>,
     <<"A","c","a","d","e","m","y">>,
     <<"C","e","n","t","e","r">> >>

\* ------------------------------------------------------------- is_company
\* Faulty variant of is_company: the keyword, lowered, is compared with the
\* affiliation as written.
is_company_CaseSensitive(affiliation) ==
  ~ \E k \in 1..Len(academic_keywords) :
       StrIn(lower(academic_keywords[k]), affiliation)

is_company(affiliation) ==
  ~ \E k \in 1..Len(academic_keywords) :
       StrIn(lower(academic_keywords[k]), lower(affiliation))

\* ------------------------------------------------- ElementTree documents
\* An optional child element: found says whether the path matches an element,
\* text is its text ("" for an element without text).
NoElem == [found |-> FALSE, text |-> Empty]
Elem(t) == [found |-> TRUE, text |-> t]

\* Element.findtext(path, default): default when no element matches, else the
\* text of the first match.
findtext(elem, default) == IF elem.found THEN elem.text ELSE default

\* findtext(".//Affiliation", ""): the text of the first Affiliation element
\* under the author, "" when there is none.
FirstAffiliation(affs) == IF Len(affs) = 0 THEN Empty ELSE affs[1]

\* ------------------------------------------ extract_authors_affiliations
\* Faulty variant of ComposeName: the two parts joined, without the final
\* strip().
ComposeName_NoStrip(first_name, last_name) ==
  first_name \o Space \o last_name

\* name = f"{first_name} {last_name}".strip()
ComposeName(first_name, last_name) ==
  strip(first_name \o Space \o last_name)

\* Lines 90-92: the display name of one <Author> entry.
AuthorName(author) ==
  ComposeName(strip(findtext(author.ForeName, Empty)),
              strip(findtext(author.LastName, Empty)))

\* Line 93: the affiliation text of one <Author> entry.
AuthorAffiliation(author) == strip(FirstAffiliation(author.Affiliations))

\* Line 95: the test that admits an author to the two lists.
Admitted(name, affiliation) ==
  Truthy(name) /\ Truthy(affiliation) /\ is_company(affiliation)

\* The whole function, as the pair it returns.
RECURSIVE extract_authors_affiliations(_)
extract_authors_affiliations(entries) ==
  IF Len(entries) = 0
  THEN [authors |-> << >>, companies |-> << >>]
  ELSE LET name        == AuthorName(entries[1])
           affiliation == AuthorAffiliation(entries[1])
           rest        == extract_authors_affiliations(Tail(entries))
       IN  IF Admitted(name, affiliation)
           THEN [authors   |-> <<name>> \o rest.authors,
                 companies |-> <<affiliation>> \o rest.companies]
           ELSE rest

\* ------------------------------------------ extract_corresponding_email
\* Returns the text of the first ElectronicAddress element, None when the
\* document has none. An element's text is itself None when it is empty.
None == [some |-> FALSE, text |-> Empty]
Some(t) == [some |-> TRUE, text |-> t]

extract_corresponding_email(addresses) ==
  IF Len(addresses) = 0 THEN None ELSE addresses[1]

\* `x or "N/A"` on an Optional[str]: None and "" are both falsy.
OrNA(x) == IF x.some /\ Truthy(x.text) THEN x.text ELSE NA

\* ---------------------------------------------------- fetch_paper_details
\* Faulty variant of JoinOrNA: an empty list is joined too, which yields "".
JoinOrNA_NoDefault(parts) == join(CommaSpace, parts)

\* ", ".join(xs) if xs else "N/A"
JoinOrNA(parts) == IF Truthy(parts) THEN join(CommaSpace, parts) ELSE NA

\* Lines 62-77: the row built from a parsed document.
BuildRow(pubmed_id, doc) ==
  LET title            == findtext(doc.ArticleTitle, NA)
      publication_date == findtext(doc.Year, NA)
      extracted        == extract_authors_affiliations(doc.Authors)
      corresponding    == extract_corresponding_email(doc.ElectronicAddress)
  IN  [PubmedID    |-> pubmed_id,
       Title       |-> title,
       PubDate     |-> publication_date,
       Authors     |-> JoinOrNA(extracted.authors),
       Companies   |-> JoinOrNA(extracted.companies),
       Email       |-> OrNA(corresponding)]

\* ------------------------------------------------------------- save_to_csv
fieldnames ==
  <<"PubmedID", "Title", "Publication Date", "Non-academic Author(s)",
    "Company Affiliation(s)", "Corresponding Author Email">>

\* ------------------------------------------------------------------ inputs
s_Jane == <<"J","a","n","e">>
s_Doe  == <<"D","o","e">>
s_Ada  == <<"A","d","a">>
s_Lee  == <<"L","e","e">>
s_Acme == <<"A","c","m","e">>
s_Bio  == <<"B","i","o">>
s_School == <<"a"," ","S","C","H","O","O","L">>
s_Title == <<"T">>
s_Year == <<"2","0","2","0">>
s_Mail1 == <<"j","@","a">>
s_Mail2 == <<"b","@","b">>

a_Jane == [ForeName |-> Elem(s_Jane), LastName |-> Elem(s_Doe),
           Affiliations |-> <<s_Acme>>]
a_Ada  == [ForeName |-> Elem(s_Ada), LastName |-> NoElem,
           Affiliations |-> <<s_Bio, s_School>>]
a_Lee  == [ForeName |-> NoElem, LastName |-> Elem(s_Lee),
           Affiliations |-> <<s_School>>]

\* The well-formed documents a detail fetch of main may return.
d_Full == [ArticleTitle |-> Elem(s_Title), Year |-> Elem(s_Year),
           Authors |-> <<a_Jane, a_Lee, a_Ada>>,
           ElectronicAddress |-> <<Some(s_Mail1), Some(s_Mail2)>>]
d_Bare == [ArticleTitle |-> NoElem, Year |-> NoElem,
           Authors |-> << >>, ElectronicAddress |-> << >>]
NoDoc == d_Bare
Documents == {d_Full, d_Bare}

\* Identifier lists a search response may carry: no identifier twice.
Ids == 1..MaxIds
IdLists ==
  UNION {{l \in [1..n -> Ids] : \A i, j \in 1..n : i # j => l[i] # l[j]}
         : n \in 0..MaxIds}

\* -n/--num-results: a small bound and the default.
NumResultsInputs == {1, 10}

\* -f/--file: not given (None), given as "" and given as a path.
NoPath == [given |-> FALSE, path |-> ""]
FileInputs == {NoPath, [given |-> TRUE, path |-> ""],
               [given |-> TRUE, path |-> "out.csv"]}
\* `if args.file:` None and "" are falsy.
FileTruthy(f) == f.given /\ f.path # ""

\* The destination file before the run: absent, or there with other content.
NoRow == [some |-> FALSE]
SomeRow(r) == [some |-> TRUE, row |-> r]
DiskInputs == {[exists |-> e, written |-> FALSE, header |-> << >>,
                rows |-> << >>] : e \in BOOLEAN}

\* ------------------------------------------------------------------- state
VARIABLES
  pc,          \* position of the entry point being run
  args,        \* argparse namespace of main: num_results, debug, file
  pubmed_ids,  \* fetch_pubmed_papers: the identifier list of the response
  idx,         \* fetch_pubmed_papers: position of the for loop in pubmed_ids
  papers,      \* fetch_pubmed_papers / main: the rows collected
  disk,        \* the file at args.file
  console,     \* what print() has written
  calls,       \* history: requests.get and time.sleep calls, in order
  failed,      \* history: positions whose detail fetch raised RequestException
  root,        \* fetch_paper_details: the parsed document
  details,     \* fetch_paper_details: its return value
  ai,          \* extract_authors_affiliations: position of the for loop
  name,        \* extract_authors_affiliations: local name
  affiliation, \* extract_authors_affiliations / is_company: affiliation
  authors,     \* extract_authors_affiliations: list authors
  companies,   \* extract_authors_affiliations: list companies
  authorsSrc,  \* history: the <Author> position each entry of authors is from
  companiesSrc,\* history: the <Author> position each entry of companies is from
  verdict      \* is_company: its return value

mainVars == <<args, pubmed_ids, idx, papers, disk, console, calls, failed>>
docVars == <<root, details>>
extractVars == <<ai, name, affiliation, authors, companies, authorsSrc,
                 companiesSrc>>
vars == <<pc, mainVars, docVars, extractVars, verdict>>

\* Values of the variables an entry point does not use.
IdleMain ==
  /\ args = [num_results |-> 10, debug |-> FALSE, file |-> NoPath]
  /\ pubmed_ids = << >> /\ idx = 1 /\ papers = << >>
  /\ disk = [exists |-> FALSE, written |-> FALSE, header |-> << >>,
             rows |-> << >>]
  /\ console = << >> /\ calls = << >> /\ failed = {}
IdleDoc == root = NoDoc /\ details = NoRow
IdleExtract ==
  /\ ai = 1 /\ name = Empty /\ affiliation = Empty
  /\ authors = << >> /\ companies = << >>
  /\ authorsSrc = << >> /\ companiesSrc = << >>
IdleVerdict == verdict = FALSE

Log(kind, arg) == [msg |-> kind, arg |-> arg]
Call(kind, arg) == [call |-> kind, arg |-> arg]

\* ==================================================================== main
\* What requests.get(...) / raise_for_status() may raise.
RequestFailures == {"ConnectionError", "Timeout", "HTTPError"}

\* Faulty variant of SearchCaught: except requests.exceptions.HTTPError.
SearchCaught_HTTPErrorOnly(failure) == failure = "HTTPError"

\* Line 25: except requests.exceptions.RequestException, the base class of
\* ConnectionError, Timeout and HTTPError.
SearchCaught(failure) == failure \in RequestFailures

\* Line 55: the same except clause around the detail request.
DetailCaught(failure) == failure \in RequestFailures

\* The exceptions that leave main uncaught: the interpreter prints the
\* traceback and the process exits with status 1.
Uncaught == RequestFailures \cup {"ValueError", "AttributeError",
                                  "ParseError", "OSError"}

Init ==
  /\ pc = "main"
  /\ args \in [num_results : NumResultsInputs, debug : BOOLEAN,
               file : FileInputs]
  /\ pubmed_ids = << >> /\ idx = 1 /\ papers = << >>
  /\ disk \in DiskInputs
  /\ console = << >> /\ calls = << >> /\ failed = {}
  /\ IdleDoc /\ IdleExtract /\ IdleVerdict

\* Lines 147-152: arguments parsed, the debug line, the call.
MainStart ==
  /\ pc = "main"
  /\ console' = IF args.debug
                THEN Append(console, Log("querying", args.num_results))
                ELSE console
  /\ pc' = "search"
  /\ UNCHANGED <<args, pubmed_ids, idx, papers, disk, calls, failed,
                 docVars, extractVars, verdict>>

\* Lines 21-27: the search request raises.
SearchRequestFails ==
  /\ pc = "search"
  /\ \E failure \in RequestFailures :
       IF SearchCaught(failure)
       THEN /\ console' = Append(console, Log("error_search", 0))
            /\ papers' = << >>
            /\ pc' = "export"
       ELSE /\ pc' = failure
            /\ UNCHANGED <<console, papers>>
  /\ calls' = Append(calls, Call("esearch", args.num_results))
  /\ UNCHANGED <<args, pubmed_ids, idx, disk, failed, docVars,
                 extractVars, verdict>>

\* Line 24: the body is not JSON. response.json() raises
\* requests.exceptions.JSONDecodeError, a RequestException, in requests 2.27
\* and later, and a plain ValueError, which line 25 does not catch, before.
SearchBodyNotJson ==
  /\ pc = "search"
  /\ calls' = Append(calls, Call("esearch", args.num_results))
  /\ \/ /\ console' = Append(console, Log("error_search", 0))
        /\ papers' = << >>
        /\ pc' = "export"
     \/ /\ pc' = "ValueError"
        /\ UNCHANGED <<console, papers>>
  /\ UNCHANGED <<args, pubmed_ids, idx, disk, failed, docVars,
                 extractVars, verdict>>

\* Line 29: the body is JSON but no object (or "esearchresult" is none):
\* .get raises AttributeError, which nothing catches.
SearchBodyWrongShape ==
  /\ pc = "search"
  /\ calls' = Append(calls, Call("esearch", args.num_results))
  /\ pc' = "AttributeError"
  /\ UNCHANGED <<args, pubmed_ids, idx, papers, disk, console, failed,
                 docVars, extractVars, verdict>>

\* Lines 22-33: the search succeeds; idlist is whatever the response carries
\* ([] when the path is absent). The list is used as received.
SearchSucceeds ==
  /\ pc = "search"
  /\ \E idlist \in IdLists :
       /\ pubmed_ids' = idlist
       /\ console' = IF args.debug
                     THEN Append(console, Log("found", Len(idlist)))
                     ELSE console
  /\ calls' = Append(calls, Call("esearch", args.num_results))
  /\ papers' = << >>
  /\ idx' = 1
  /\ pc' = "loop"
  /\ UNCHANGED <<args, disk, failed, docVars, extractVars, verdict>>

\* Faulty variant of DetailRequestFails: the pause is under `if details`, so
\* a failed fetch goes straight to the next identifier.
DetailRequestFails_NoPause ==
  /\ pc = "loop" /\ idx <= Len(pubmed_ids)
  /\ calls' = Append(calls, Call("efetch", pubmed_ids[idx]))
  /\ console' = Append(console, Log("error_paper", pubmed_ids[idx]))
  /\ failed' = failed \cup {idx}
  /\ idx' = idx + 1
  /\ pc' = "loop"
  /\ UNCHANGED <<args, pubmed_ids, papers, disk, docVars, extractVars,
                 verdict>>

\* Lines 35-37 with 52-57: the detail request raises; fetch_paper_details
\* returns None and nothing is appended.
DetailRequestFails ==
  /\ pc = "loop" /\ idx <= Len(pubmed_ids)
  /\ calls' = Append(calls, Call("efetch", pubmed_ids[idx]))
  /\ \E failure \in RequestFailures :
       IF DetailCaught(failure)
       THEN /\ console' = Append(console, Log("error_paper", pubmed_ids[idx]))
            /\ failed' = failed \cup {idx}
            /\ pc' = "sleep"
       ELSE /\ pc' = failure
            /\ UNCHANGED <<console, failed>>
  /\ UNCHANGED <<args, pubmed_ids, idx, papers, disk, docVars, extractVars,
                 verdict>>

\* Line 59: the request succeeds and the body is not well-formed XML.
\* ET.fromstring raises ParseError; no except clause of fetch_paper_details,
\* fetch_pubmed_papers or main catches it.
DetailBodyMalformed ==
  /\ pc = "loop" /\ idx <= Len(pubmed_ids)
  /\ calls' = Append(calls, Call("efetch", pubmed_ids[idx]))
  /\ pc' = "ParseError"
  /\ UNCHANGED <<args, pubmed_ids, idx, papers, disk, console, failed,
                 docVars, extractVars, verdict>>

\* Lines 35-37 with 52-77: the request succeeds, the document parses, the row
\* is built and appended (a dict with six keys is truthy).
DetailSucceeds ==
  /\ pc = "loop" /\ idx <= Len(pubmed_ids)
  /\ calls' = Append(calls, Call("efetch", pubmed_ids[idx]))
  /\ \E doc \in Documents :
       /\ root' = doc
       /\ details' = SomeRow(BuildRow(pubmed_ids[idx], doc))
  /\ console' = IF args.debug
                THEN Append(console, Log("processed", pubmed_ids[idx]))
                ELSE console
  /\ papers' = Append(papers, details'.row)
  /\ pc' = "sleep"
  /\ UNCHANGED <<args, pubmed_ids, idx, disk, failed, extractVars, verdict>>

\* Line 38: time.sleep(0.5), then the next iteration. The locals of the
\* finished call of fetch_paper_details are gone.
Sleep ==
  /\ pc = "sleep"
  /\ calls' = Append(calls, Call("sleep", 0))
  /\ idx' = idx + 1
  /\ root' = NoDoc /\ details' = NoRow
  /\ pc' = "loop"
  /\ UNCHANGED <<args, pubmed_ids, papers, disk, console, failed,
                 extractVars, verdict>>

\* Line 40: the loop is over, papers is returned to main.
ReturnPapers ==
  /\ pc = "loop" /\ idx > Len(pubmed_ids)
  /\ pc' = "export"
  /\ UNCHANGED <<mainVars, docVars, extractVars, verdict>>

\* Faulty variant of SaveToCsvNoData: no guard on an empty list, the file is
\* written with the header alone.
SaveToCsvNoData_WritesHeader ==
  /\ pc = "export" /\ FileTruthy(args.file) /\ papers = << >>
  /\ disk' = [exists |-> TRUE, written |-> TRUE, header |-> fieldnames,
              rows |-> << >>]
  /\ console' = Append(console, Log("saved", 0))
  /\ pc' = "exit0"
  /\ UNCHANGED <<args, pubmed_ids, idx, papers, calls, failed, docVars,
                 extractVars, verdict>>

\* Lines 154-155 with 129-131: save_to_csv on an empty list warns and returns.
SaveToCsvNoData ==
  /\ pc = "export" /\ FileTruthy(args.file) /\ papers = << >>
  /\ console' = Append(console, Log("no_data", 0))
  /\ pc' = "exit0"
  /\ UNCHANGED <<args, pubmed_ids, idx, papers, disk, calls, failed,
                 docVars, extractVars, verdict>>

\* Lines 133-138: the file is opened for writing (created or truncated), the
\* header and the rows are written.
SaveToCsvWrites ==
  /\ pc = "export" /\ FileTruthy(args.file) /\ papers # << >>
  /\ disk' = [exists |-> TRUE, written |-> TRUE, header |-> fieldnames,
              rows |-> papers]
  /\ console' = Append(console, Log("saved", Len(papers)))
  /\ pc' = "exit0"
  /\ UNCHANGED <<args, pubmed_ids, idx, papers, calls, failed, docVars,
                 extractVars, verdict>>

\* Line 133: open() raises OSError (no such directory, no permission);
\* nothing catches it.
SaveToCsvOpenFails ==
  /\ pc = "export" /\ FileTruthy(args.file) /\ papers # << >>
  /\ pc' = "OSError"
  /\ UNCHANGED <<mainVars, docVars, extractVars, verdict>>

RECURSIVE PrintedRows(_)
PrintedRows(rows) ==
  IF Len(rows) = 0 THEN << >>
  ELSE <<Log("row", rows[1].PubmedID)>> \o PrintedRows(Tail(rows))

\* Lines 156-158: no destination, every row is printed.
PrintPapers ==
  /\ pc = "export" /\ ~FileTruthy(args.file)
  /\ console' = console \o PrintedRows(papers)
  /\ pc' = "exit0"
  /\ UNCHANGED <<args, pubmed_ids, idx, papers, disk, calls, failed,
                 docVars, extractVars, verdict>>

Next ==
  \/ MainStart
  \/ SearchRequestFails
  \/ SearchBodyNotJson
  \/ SearchBodyWrongShape
  \/ SearchSucceeds
  \/ DetailRequestFails
  \/ DetailBodyMalformed
  \/ DetailSucceeds
  \/ Sleep
  \/ ReturnPapers
  \/ SaveToCsvNoData
  \/ SaveToCsvWrites
  \/ SaveToCsvOpenFails
  \/ PrintPapers

Spec == Init /\ [][Next]_vars

\* ============================================ extract_authors_affiliations
\* The function run statement by statement on one document.
s_AdaLead == <<" ","A","d","a">>
s_LeeTrail == <<"L","e","e"," ">>
s_AcmeTrail == <<"A","c","m","e"," ">>
ForeNameInputs == {NoElem, Elem(Space), Elem(s_AdaLead)}
LastNameInputs == {NoElem, Elem(Empty), Elem(s_LeeTrail)}
AffiliationListInputs ==
  {<< >>, <<Space>>, <<s_AcmeTrail>>, <<s_School>>, <<Empty, s_Acme>>}
AuthorInputs ==
  [ForeName : ForeNameInputs, LastName : LastNameInputs,
   Affiliations : AffiliationListInputs]
AuthorListInputs == UNION {[1..n -> AuthorInputs] : n \in 0..MaxAuthors}

InitExtract ==
  /\ pc = "extract_for"
  /\ \E entries \in AuthorListInputs :
       root = [d_Bare EXCEPT !.Authors = entries]
  /\ details = NoRow
  /\ IdleMain /\ IdleExtract /\ IdleVerdict

\* Lines 89-93: the next <Author> entry, its name and its affiliation.
ExtractNextAuthor ==
  /\ pc = "extract_for" /\ ai <= Len(root.Authors)
  /\ name' = AuthorName(root.Authors[ai])
  /\ affiliation' = AuthorAffiliation(root.Authors[ai])
  /\ pc' = "extract_if"
  /\ UNCHANGED <<mainVars, docVars, ai, authors, companies, authorsSrc,
                 companiesSrc, verdict>>

\* Line 95: the test.
ExtractTest ==
  /\ pc = "extract_if"
  /\ IF Admitted(name, affiliation)
     THEN pc' = "extract_append_authors" /\ ai' = ai
     ELSE pc' = "extract_for" /\ ai' = ai + 1
  /\ UNCHANGED <<mainVars, docVars, name, affiliation, authors, companies,
                 authorsSrc, companiesSrc, verdict>>

\* Line 96: authors.append(name)
ExtractAppendAuthors ==
  /\ pc = "extract_append_authors"
  /\ authors' = Append(authors, name)
  /\ authorsSrc' = Append(authorsSrc, ai)
  /\ pc' = "extract_append_companies"
  /\ UNCHANGED <<mainVars, docVars, ai, name, affiliation, companies,
                 companiesSrc, verdict>>

\* Faulty variant of ExtractAppendCompanies: each company is kept once.
ExtractAppendCompanies_Dedup ==
  /\ pc = "extract_append_companies"
  /\ IF \E k \in 1..Len(companies) : companies[k] = affiliation
     THEN UNCHANGED <<companies, companiesSrc>>
     ELSE /\ companies' = Append(companies, affiliation)
          /\ companiesSrc' = Append(companiesSrc, ai)
  /\ ai' = ai + 1
  /\ pc' = "extract_for"
  /\ UNCHANGED <<mainVars, docVars, name, affiliation, authors, authorsSrc,
                 verdict>>

\* Line 97: companies.append(affiliation), then the next iteration.
ExtractAppendCompanies ==
  /\ pc = "extract_append_companies"
  /\ companies' = Append(companies, affiliation)
  /\ companiesSrc' = Append(companiesSrc, ai)
  /\ ai' = ai + 1
  /\ pc' = "extract_for"
  /\ UNCHANGED <<mainVars, docVars, name, affiliation, authors, authorsSrc,
                 verdict>>

\* Line 99: return authors, companies
ExtractReturn ==
  /\ pc = "extract_for" /\ ai > Len(root.Authors)
  /\ pc' = "extract_return"
  /\ UNCHANGED <<mainVars, docVars, extractVars, verdict>>

NextExtract ==
  \/ ExtractNextAuthor
  \/ ExtractTest
  \/ ExtractAppendAuthors
  \/ ExtractAppendCompanies
  \/ ExtractReturn

SpecExtract == InitExtract /\ [][NextExtract]_vars

\* ============================================================== is_company
\* str.upper(), used to write the inputs only.
UpperChar(c) ==
  IF \E i \in 1..Len(LowerLetters) : LowerLetters[i] = c
  THEN UpperLetters[CHOOSE i \in 1..Len(LowerLetters) : LowerLetters[i] = c]
  ELSE c
upper(s) == [i \in 1..Len(s) |-> UpperChar(s[i])]
\* Every second letter in upper case: "uNiVeRsItY".
Mixed(s) ==
  [i \in 1..Len(s) |-> IF i % 2 = 0 THEN UpperChar(s[i]) ELSE LowerChar(s[i])]

\* The affiliation strings classified: a keyword as written, in lower, upper
\* and mixed case, and with a letter missing or a space inside, each with up
\* to MaxPad characters before and after it.
PadChars == {" ", "x", "C"}
Pads == UNION {[1..n -> PadChars] : n \in 0..MaxPad}
KeywordVariants(kw) ==
  {kw, lower(kw), upper(kw), Mixed(kw), Tail(kw),
   SubSeq(kw, 1, Len(kw) - 1),
   SubSeq(kw, 1, 3) \o Space \o SubSeq(kw, 4, Len(kw))}
Cores ==
  {Empty, s_Acme}
  \cup UNION {KeywordVariants(academic_keywords[k])
              : k \in 1..Len(academic_keywords)}
AffiliationInputs ==
  {before \o core \o after : before \in Pads, core \in Cores, after \in Pads}

InitClassify ==
  /\ pc = "is_company"
  /\ affiliation \in AffiliationInputs
  /\ ai = 1 /\ name = Empty /\ authors = << >> /\ companies = << >>
  /\ authorsSrc = << >> /\ companiesSrc = << >>
  /\ IdleMain /\ IdleDoc /\ IdleVerdict

\* Lines 108-109
IsCompanyCall ==
  /\ pc = "is_company"
  /\ verdict' = is_company(affiliation)
  /\ pc' = "is_company_return"
  /\ UNCHANGED <<mainVars, docVars, extractVars>>

NextClassify == IsCompanyCall

SpecClassify == InitClassify /\ [][NextClassify]_vars

\* ===================================================== fetch_paper_details
\* Lines 59-77 on every combination of present and absent fields.
TitleInputs == {NoElem, Elem(Empty), Elem(s_Title)}
YearInputs == {NoElem, Elem(Empty), Elem(s_Year)}
RowAuthorInputs == {a_Jane, a_Ada, a_Lee}
RowAuthorListInputs == UNION {[1..n -> RowAuthorInputs] : n \in 0..MaxAuthors}
AddressInputs ==
  {<< >>, <<None>>, <<Some(s_Mail1)>>, <<Some(s_Mail1), Some(s_Mail2)>>,
   <<None, Some(s_Mail2)>>}
DocumentInputs ==
  [ArticleTitle : TitleInputs, Year : YearInputs,
   Authors : RowAuthorListInputs, ElectronicAddress : AddressInputs]

InitDetails ==
  /\ pc = "details_parse"
  /\ root \in DocumentInputs
  /\ details = NoRow
  /\ args = [num_results |-> 10, debug |-> FALSE, file |-> NoPath]
  /\ \E id \in Ids : pubmed_ids = <<id>>
  /\ idx = 1 /\ papers = << >>
  /\ disk = [exists |-> FALSE, written |-> FALSE, header |-> << >>,
             rows |-> << >>]
  /\ console = << >> /\ calls = << >> /\ failed = {}
  /\ IdleExtract /\ IdleVerdict

\* Lines 62-77: the fields are read and the row is returned.
DetailsBuildRow ==
  /\ pc = "details_parse"
  /\ details' = SomeRow(BuildRow(pubmed_ids[idx], root))
  /\ pc' = "details_return"
  /\ UNCHANGED <<mainVars, root, extractVars, verdict>>

NextDetails == DetailsBuildRow

SpecDetails == InitDetails /\ [][NextDetails]_vars

\* ================================================================== claims
\* ---- vocabulary of the claims, written without the operators of the model
\* The seven substrings the specification lists.
ListedKeywords ==
  << <<"U","n","i","v","e","r","s","i","t","y">>,
     <<"I","n","s","t","i","t","u","t","e">>,
     <<"C","o","l","l","e","g","e">>,
     <<"S","c","h","o","o","l">>,
     <<"H","o","s","p","i","t","a","l">>,
     <<"A","c","a","d","e","m","y">>,
     <<"C","e","n","t","e","r">> >>

\* Two characters are the same letter, whatever their case.
SameLetter(a, b) ==
  \/ a = b
  \/ \E i \in 1..Len(UpperLetters) :
       \/ a = UpperLetters[i] /\ b = LowerLetters[i]
       \/ a = LowerLetters[i] /\ b = UpperLetters[i]

\* s contains kw at some offset, letter by letter, ignoring case.
ContainsIgnoringCase(s, kw) ==
  \E off \in 0..(Len(s) - Len(kw)) :
    \A k \in 1..Len(kw) : SameLetter(s[off + k], kw[k])

ContainsListedKeyword(s) ==
  \E k \in 1..Len(ListedKeywords) : ContainsIgnoringCase(s, ListedKeywords[k])

\* Trimming, one character at a time.
RECURSIVE TrimLeft(_)
TrimLeft(s) ==
  IF Len(s) > 0 /\ s[1] = " " THEN TrimLeft(Tail(s)) ELSE s
RECURSIVE TrimRight(_)
TrimRight(s) ==
  IF Len(s) > 0 /\ s[Len(s)] = " "
  THEN TrimRight(SubSeq(s, 1, Len(s) - 1)) ELSE s
Trimmed(s) == TrimRight(TrimLeft(s))

TextOf(elem) == IF elem.found THEN elem.text ELSE << >>

\* Trimmed first and last name, space-joined, empty parts omitted.
ComposedName(author) ==
  LET f == Trimmed(TextOf(author.ForeName))
      l == Trimmed(TextOf(author.LastName))
  IN  IF f = << >> THEN l ELSE IF l = << >> THEN f ELSE f \o <<" ">> \o l

\* The first affiliation text of the author, trimmed.
FirstAffiliationText(author) ==
  IF author.Affiliations = << >> THEN << >>
  ELSE Trimmed(author.Affiliations[1])

\* The three conditions of inclusion.
Qualifies(author) ==
  /\ ComposedName(author) # << >>
  /\ FirstAffiliationText(author) # << >>
  /\ ~ContainsListedKeyword(FirstAffiliationText(author))

\* The positions of the qualifying authors, in document order.
RECURSIVE QualifyingFrom(_, _)
QualifyingFrom(entries, i) ==
  IF i > Len(entries) THEN << >>
  ELSE IF Qualifies(entries[i])
       THEN <<i>> \o QualifyingFrom(entries, i + 1)
       ELSE QualifyingFrom(entries, i + 1)
QualifyingPositions(entries) == QualifyingFrom(entries, 1)

\* parts joined with ", ", built from the left.
RECURSIVE CommaJoinedOnto(_, _)
CommaJoinedOnto(acc, rest) ==
  IF rest = << >> THEN acc
  ELSE CommaJoinedOnto(acc \o <<",", " ">> \o rest[1], Tail(rest))
CommaJoined(parts) ==
  IF parts = << >> THEN << >> ELSE CommaJoinedOnto(parts[1], Tail(parts))

\* ---------------------------------------------------------------------- C4
\* C4: is_company returns False exactly for the strings that contain, in any
\* case and whatever surrounds it, one of the seven listed substrings, and
\* True for every other string.
C4_AcademicIffListedKeyword ==
  pc = "is_company_return" =>
    (verdict = ~ContainsListedKeyword(affiliation))

\* A keyword in another case than listed, with text around it, was classified
\* academic.
C4_Witness ==
  /\ pc = "is_company_return"
  /\ verdict = FALSE
  /\ \A k \in 1..Len(ListedKeywords) : ~StrIn(ListedKeywords[k], affiliation)
  /\ Len(affiliation) > 0 /\ affiliation[1] = "x"
  /\ affiliation[Len(affiliation)] = " "

\* ---------------------------------------------------------------------- C5
\* C5: the name composed by the code is the trimmed first and last name,
\* space-joined with empty parts omitted; an author reaches the appends only
\* if its name is non-empty, its first affiliation text is non-empty and that
\* text holds no listed keyword; and the function returns exactly the
\* qualifying authors, so an author with an empty name is left out whatever its
\* affiliation.
C5_IncludedIffQualifies ==
  /\ pc = "extract_if" => name = ComposedName(root.Authors[ai])
  /\ pc = "extract_append_authors" => Qualifies(root.Authors[ai])
  /\ pc = "extract_return" =>
       /\ authorsSrc = QualifyingPositions(root.Authors)
       /\ \A k \in 1..Len(authors) :
            authors[k] = ComposedName(root.Authors[authorsSrc[k]])
       /\ \A i \in 1..Len(root.Authors) :
            ComposedName(root.Authors[i]) = << >> =>
              \A k \in 1..Len(authorsSrc) : authorsSrc[k] # i

\* The function returned with one author included and another, whose name is
\* empty and whose affiliation is a company, left out.
C5_Witness ==
  /\ pc = "extract_return"
  /\ Len(authors) = 1
  /\ \E i \in 1..Len(root.Authors) :
       /\ ComposedName(root.Authors[i]) = << >>
       /\ FirstAffiliationText(root.Authors[i]) # << >>
       /\ ~ContainsListedKeyword(FirstAffiliationText(root.Authors[i]))

\* ---------------------------------------------------------------------- C6
\* The two lists have equal length, entry k of both comes from the same
\* <Author> entry, and the entries are in document order.
ListsAligned ==
  /\ Len(authors) = Len(companies)
  /\ authorsSrc = companiesSrc
  /\ \A k \in 1..Len(authors) :
       /\ authors[k] = ComposedName(root.Authors[authorsSrc[k]])
       /\ companies[k] = FirstAffiliationText(root.Authors[authorsSrc[k]])
  /\ \A j, k \in 1..Len(authorsSrc) : j < k => authorsSrc[j] < authorsSrc[k]

\* C6 as stated: at every point of extract_authors_affiliations and in its
\* result the two lists have equal length and are index-aligned, in document
\* encounter order.
C6_AlignedAtEveryPoint == ListsAligned

\* C6 as amended: the lists are equal in length, index-aligned and in document
\* order at every point except between authors.append(name) and
\* companies.append(affiliation) of one admitted author, where authors is one
\* entry longer and companies is aligned with its first entries; in
\* particular they are aligned in the result.
C6_AlignedOutsideAppendPair ==
  /\ pc # "extract_append_companies" => ListsAligned
  /\ pc = "extract_append_companies" =>
       /\ Len(authors) = Len(companies) + 1
       /\ companiesSrc = SubSeq(authorsSrc, 1, Len(companies))
       /\ authorsSrc[Len(authors)] = ai

\* The function returned two aligned entries.
C6_Witness ==
  /\ pc = "extract_return"
  /\ Len(authors) = 2 /\ Len(companies) = 2
  /\ authorsSrc = <<1, 2>>

\* ---------------------------------------------------------------------- C8
\* The document has no corresponding-author email to extract.
NoEmailValue(doc) ==
  doc.ElectronicAddress = << >> \/ ~doc.ElectronicAddress[1].some

RunOver == pc = "exit0" \/ pc \in Uncaught

\* fetch_pubmed_papers returned to main.
Returned == pc \in {"export", "exit0", "OSError"}

\* The detail requests issued so far, as the identifiers asked for, in order.
RECURSIVE DetailRequestsOf(_)
DetailRequestsOf(cs) ==
  IF cs = << >> THEN << >>
  ELSE IF cs[1].call = "efetch"
       THEN <<cs[1].arg>> \o DetailRequestsOf(Tail(cs))
       ELSE DetailRequestsOf(Tail(cs))
DetailRequests == DetailRequestsOf(calls)

Logged(kind) == \E k \in 1..Len(console) : console[k].msg = kind

\* The identifiers at the positions whose detail fetch did not fail, in order.
RECURSIVE SucceededFrom(_)
SucceededFrom(i) ==
  IF i > Len(pubmed_ids) THEN << >>
  ELSE IF i \in failed THEN SucceededFrom(i + 1)
       ELSE <<pubmed_ids[i]>> \o SucceededFrom(i + 1)

\* ---------------------------------------------------------------------- C1
\* C1: a failed detail fetch never aborts the loop. Once fetch_pubmed_papers
\* is left, by return or by an exception, every identifier after a failed one
\* has been fetched; and the returned list has exactly one row per identifier
\* whose fetch did not fail, in identifier-list order, so its length is the
\* identifier count minus the number of failures.
C1_FailedFetchNeverAborts ==
  /\ (Returned \/ RunOver) =>
       \A i \in failed : \A j \in (i + 1)..Len(pubmed_ids) :
         \E k \in 1..Len(DetailRequests) : DetailRequests[k] = pubmed_ids[j]
  /\ Returned =>
       /\ [k \in 1..Len(papers) |-> papers[k].PubmedID] = SucceededFrom(1)
       /\ Len(papers) = Len(pubmed_ids) - Cardinality(failed)

\* ---------------------------------------------------------------------- C2
\* C2: no error reaches the entry point: whatever the search and the detail
\* fetches return, no exception leaves main, and a run that is over is in the
\* exit-0 state.
C2_NoErrorReachesEntryPoint == pc \notin Uncaught

\* ---------------------------------------------------------------------- C3
\* C3: a transport or HTTP-status failure of the search request never leaves
\* fetch_pubmed_papers as an exception; it is logged, the function returns an
\* empty list, no detail request is issued in that run, and the run ends with
\* no row printed and no file written.
C3_SearchFailureYieldsNothing ==
  /\ pc \notin RequestFailures
  /\ Logged("error_search") =>
       /\ pc \in {"export", "exit0"}
       /\ papers = << >>
       /\ DetailRequests = << >>
       /\ ~disk.written
       /\ ~Logged("row") /\ ~Logged("saved")

\* A run whose search failed is over, with the warning of the exporter.
C3_Witness ==
  /\ pc = "exit0"
  /\ Logged("error_search")
  /\ Logged("no_data")
  /\ Len(calls) = 1

\* ---------------------------------------------------------------------- C7
\* The rows printed, as the identifiers of the "row" lines of the console.
RECURSIVE PrintedIdsOf(_)
PrintedIdsOf(lines) ==
  IF lines = << >> THEN << >>
  ELSE IF lines[1].msg = "row"
       THEN <<lines[1].arg>> \o PrintedIdsOf(Tail(lines))
       ELSE PrintedIdsOf(Tail(lines))

\* C7: a file is written only when a destination is given and the row list is
\* non-empty, and then it holds the header and the rows; save_to_csv on an
\* empty list warns and leaves the destination as it was; with no destination
\* every record is printed and no file is written.
C7_NoFileForEmptyOrNoDestination ==
  /\ disk.written =>
       /\ args.file.given /\ args.file.path # ""
       /\ papers # << >>
       /\ disk.rows = papers /\ disk.header = fieldnames
  /\ (pc = "exit0" /\ args.file.given /\ args.file.path # ""
      /\ papers = << >>) =>
       /\ console[Len(console)].msg = "no_data"
       /\ ~disk.written /\ disk.rows = << >> /\ disk.header = << >>
  /\ (pc = "exit0" /\ ~args.file.given) =>
       /\ ~disk.written
       /\ PrintedIdsOf(console) = [k \in 1..Len(papers) |-> papers[k].PubmedID]

\* save_to_csv was called with an empty list over a file that was there: the
\* warning is on the console and the file is as it was.
C7_Witness ==
  /\ pc = "exit0"
  /\ args.file.given /\ args.file.path # ""
  /\ papers = << >> /\ pubmed_ids # << >>
  /\ disk.exists /\ ~disk.written
  /\ Logged("no_data")

\* ---------------------------------------------------------------------- C9
\* C9: detail requests are issued one at a time in identifier-list order, and
\* every detail request, failed or not, is followed by the pause before the
\* next call: no two detail requests are adjacent.
C9_PauseAfterEveryFetch ==
  /\ \A k \in 1..(Len(calls) - 1) :
       calls[k].call = "efetch" => calls[k + 1].call = "sleep"
  /\ (pc = "loop" /\ Len(calls) > 0) => calls[Len(calls)].call # "efetch"
  /\ Len(DetailRequests) <= Len(pubmed_ids)
  /\ DetailRequests = SubSeq(pubmed_ids, 1, Len(DetailRequests))

\* Two detail requests were issued, the first of which failed.
C9_Witness ==
  /\ Len(DetailRequests) = 2
  /\ 1 \in failed
  /\ pc = "sleep"

\* --------------------------------------------------------------------- C10
\* C10: with max-results bound n, whatever the search response, no more than
\* n identifiers are processed, no more than n detail requests are issued and
\* no more than n rows are returned.
C10_BoundedByMaxResults ==
  /\ Len(pubmed_ids) <= args.num_results
  /\ Len(DetailRequests) <= args.num_results
  /\ Len(papers) <= args.num_results

====
